---- MODULE Spec2Model ----
(***************************************************************************)
(* A model of the widgets of this repository.  The first part models       *)
(* widgets/color/colorButton.py: the ColorButton's stored colour, its      *)
(* formatted colour string and tooltip, the output format chosen from the  *)
(* context menu, the hover / context-menu flags, the modal colour dialog   *)
(* and the drag-and-drop exchange between two buttons.                     *)
(*                                                                         *)
(* Two ColorButton instances, "A" and "B", live in one application.  Every *)
(* handler of the class is one action, taken for one of the two buttons.   *)
(* The three places where a handler blocks in a nested event loop          *)
(* (QColorDialog.exec, QDrag.exec, QMenu.exec) split that handler in two:  *)
(* the part before the call, and one action per way the call can return.   *)
(***************************************************************************)
EXTENDS Integers, Sequences, FiniteSets, TLC

VARIABLES
    color,              \* [Buttons -> Color]      self.__color
    colorString,        \* [Buttons -> STRING]     self.__colorString
    toolTip,            \* [Buttons -> STRING]     QWidget.toolTip()
    colorFormat,        \* [Buttons -> STRING]     instance attribute colorFormat (NoAttr: unset)
    checked,            \* [Buttons -> STRING]     checked action of the 'Value Type' group
    clipboard,          \* STRING                  QApplication.clipboard().text()
    hover,              \* [Buttons -> BOOLEAN]    property 'hover'
    contextMenuVisible, \* [Buttons -> BOOLEAN]    property 'contextMenuVisible'
    clickToOpen,        \* [Buttons -> BOOLEAN]    self.__clickToOpen
    dragStartPosition,  \* [Buttons -> Point]      self.__dragStartPosition
    dialog,             \* the QColorDialog of a running __openDialog, or NoDialog
    drag,               \* the QDrag session in flight, or NoDrag
    lastEvent,          \* what the last handler did that its caller can observe
    lastCrossing,       \* [Buttons -> STRING]     the last pointer event or accepted-drag event of the button
    pen,                \* [Buttons -> STRING]     pen chosen by the last paintEvent
    calls,              \* [Buttons -> Seq(Color)] setColor calls made by the last action
    emits,              \* [Buttons -> Seq(...)]   colorChanged emissions of the last action
    box,                \* the ColorBox: _color, _rgb, r, g, b, a, toolTip
    boxEvent,           \* the last ColorBox.setColor call and how it returned
    slider,             \* the SliderWidget: _value, _defaultValue, its QSlider and QSpinBox
    sliderEvent,        \* the last SliderWidget call or user edit, its setValue calls and emissions
    label,              \* the SliderLabel: text, _name, _hovering, its timer
    labelEvent          \* the last SliderLabel call or event and what it emitted

\* the state of the two ColorButtons and of what they share
buttonVars == << color, colorString, toolTip, colorFormat, checked, clipboard, hover,
                 contextMenuVisible, clickToOpen, dragStartPosition, dialog, drag,
                 lastEvent, lastCrossing, pen, calls, emits >>

\* the state of the other widgets, which no ColorButton handler touches
boxVars == << box, boxEvent >>
sliderVars == << slider, sliderEvent, label, labelEvent >>
widgetVars == << boxVars, sliderVars >>

vars == << buttonVars, widgetVars >>

-----------------------------------------------------------------------------
(* Bounds of the model *)

\* number of valid colours of the palette the inputs are drawn from
NumColors == 2

\* number of live colour changes followed in one run of the dialog
MaxLive == 3

\* number of hex digits the colour strings given to a ColorBox are written with
NumDigits == 3

\* number of values the SliderWidget is built and set with
NumValues == 4

-----------------------------------------------------------------------------
(* Values *)

Buttons == {"A", "B"}

Other(b) == IF b = "A" THEN "B" ELSE "A"

\* A QColor: its colour spec and its 8-bit channels
Rgb(r, g, b) == [spec |-> "Rgb", r |-> r, g |-> g, b |-> b, a |-> 255]

\* QColor('Invalid') / QColor(): spec Invalid, channels 0, alpha opaque
Invalid == [spec |-> "Invalid", r |-> 0, g |-> 0, b |-> 0, a |-> 255]

isValid(c) == c.spec # "Invalid"

PaletteSeq == << Rgb(4, 66, 227), Rgb(255, 0, 0), Rgb(128, 128, 128),
                 Rgb(0, 255, 127), Rgb(250, 250, 210) >>

ValidColors == { PaletteSeq[i] : i \in 1..NumColors }

Colors == ValidColors \cup {Invalid}

MIME_TYPE_COLOR == "application/x-color"

MimeFormats == {MIME_TYPE_COLOR, "text/plain"}

NoAttr == "<unset>"

\* colorFormat = 'RGB' on the class: what self.colorFormat reads until the
\* instance attribute is assigned
ClassColorFormat == "RGB"

FormatActions == << "Hex", "RGB", "HSL" >>

-----------------------------------------------------------------------------
(* Colour-string formatting: ColorButton.__parseColor *)

HexDigits == << "0", "1", "2", "3", "4", "5", "6", "7",
                "8", "9", "A", "B", "C", "D", "E", "F" >>

Hex2(n) == HexDigits[(n \div 16) + 1] \o HexDigits[(n % 16) + 1]

\* str.lower() on the three action texts and on the class default
Lower(s) ==
    CASE s = "Hex" -> "hex"
      [] s = "RGB" -> "rgb"
      [] s = "HSL" -> "hsl"
      [] OTHER -> s

Max3(x, y, z) == IF x >= y /\ x >= z THEN x ELSE IF y >= z THEN y ELSE z
Min3(x, y, z) == IF x <= y /\ x <= z THEN x ELSE IF y <= z THEN y ELSE z

\* num / den rounded half-up to an integer (num >= 0, den > 0)
HalfUp(num, den) == (2 * num + den) \div (2 * den)

\* decimal.Context(prec=4, rounding=ROUND_HALF_UP): num / den is rounded to 4
\* significant digits by the multiplication, then to an integer by ':.0f'
\* (the format rounds with the context's rounding as well).
DecimalFormat0(num, den) ==
    LET scale == IF num >= 1000 * den THEN 1
                 ELSE IF num >= 100 * den THEN 10
                 ELSE IF num >= 10 * den THEN 100
                 ELSE IF num >= den THEN 1000
                 ELSE 10000
        q == HalfUp(num * scale, den)
    IN  IF 10 * num < den THEN 0 ELSE HalfUp(q, scale)

\* QColor.toHsl: hue in 1/100 degree, saturation and lightness in 1/65535,
\* from the channels in 1/255 (an invalid colour reads hue, saturation and
\* lightness 0 out of its zeroed channels; an achromatic one has no hue).
HslOf(c) ==
    LET mx == Max3(c.r, c.g, c.b)
        mn == Min3(c.r, c.g, c.b)
        d  == mx - mn
        d2 == mx + mn
        l16 == HalfUp(d2 * 65535, 510)
        s16 == IF 2 * d2 < 510 THEN HalfUp(d * 65535, d2)
                               ELSE HalfUp(d * 65535, 510 - d2)
        \* hue / 60 as a fraction n / d
        n0 == IF c.r = mx THEN c.g - c.b
              ELSE IF c.g = mx THEN 2 * d + (c.b - c.r)
              ELSE 4 * d + (c.r - c.g)
        n  == IF n0 < 0 THEN n0 + 6 * d ELSE n0
    IN  IF ~isValid(c) THEN [achromatic |-> FALSE, h |-> 0, s |-> 0, l |-> 0]
        ELSE IF d = 0 THEN [achromatic |-> TRUE, h |-> 0, s |-> 0, l |-> l16]
        ELSE [achromatic |-> FALSE, h |-> HalfUp(6000 * n, d), s |-> s16, l |-> l16]

\* case 'hex': color.name().upper()
FormatHex(c) == "#" \o Hex2(c.r) \o Hex2(c.g) \o Hex2(c.b)

\* case 'rgb': Decimal(getRgbF()[i]) * 255, each printed with ':.0f'
FormatRgb(c) ==
    "rgb(" \o ToString(DecimalFormat0(c.r * 255, 255)) \o ", "
           \o ToString(DecimalFormat0(c.g * 255, 255)) \o ", "
           \o ToString(DecimalFormat0(c.b * 255, 255)) \o ") "

\* case 'hsl': Decimal(hslHueF()) * 360 and Decimal(getHslF()[1:3]) * 100;
\* hslHueF() of an achromatic colour is -1.0, printed as -360
FormatHsl(c) ==
    LET hsl == HslOf(c)
        h == IF hsl.achromatic THEN "-360"
             ELSE ToString(DecimalFormat0(hsl.h, 100))
    IN  "hsl(" \o h \o ", "
               \o ToString(DecimalFormat0(hsl.s * 100, 65535)) \o "%, "
               \o ToString(DecimalFormat0(hsl.l * 100, 65535)) \o "%) "

\* the match statement of __parseColor: s stays '' for any other format
FormatColor(c, fmt) ==
    CASE Lower(fmt) = "hex" -> FormatHex(c)
      [] Lower(fmt) = "rgb" -> FormatRgb(c)
      [] Lower(fmt) = "hsl" -> FormatHsl(c)
      [] OTHER -> ""

\* self.colorFormat: the instance attribute, else the class attribute
ColorFormatOf(fmt) == IF fmt = NoAttr THEN ClassColorFormat ELSE fmt

-----------------------------------------------------------------------------
(* Pointer events *)

LeftButton == "Left"
MouseButtons == {"Left", "Right"}

\* event.buttons(): the set of buttons held during a move
ButtonSets == { {}, {"Left"}, {"Left", "Right"} }

\* flags ^ LeftButton: the flags that are set in exactly one of the two
XorLeft(buttons) == (buttons \ {LeftButton}) \cup ({LeftButton} \ buttons)

\* QApplication.startDragDistance(): the platform default
StartDragDistance == 10

Points == { <<0, 0>>, <<5, 4>>, <<5, 5>> }

Abs(x) == IF x < 0 THEN -x ELSE x

\* QPoint(pos - start).manhattanLength()
manhattanLength(pos, start) == Abs(pos[1] - start[1]) + Abs(pos[2] - start[2])

-----------------------------------------------------------------------------
(* Drag-and-drop payload: QDataStream << QColor and QDataStream >> QColor *)

SpecCode(spec) == IF spec = "Rgb" THEN 1 ELSE 0

\* stream << self.__color: the spec, then alpha, red, green, blue and a pad
\* as 16-bit values (an 8-bit channel x is held as x * 0x101)
EncodeColor(c) == << SpecCode(c.spec), c.a * 257, c.r * 257, c.g * 257, c.b * 257, 0 >>

\* stream >> color: the colour reports the high byte of each 16-bit value
DecodeColor(data) ==
    [spec |-> IF data[1] = 1 THEN "Rgb" ELSE "Invalid",
     r |-> data[3] \div 256, g |-> data[4] \div 256, b |-> data[5] \div 256,
     a |-> data[2] \div 256]

NoDrag == [src |-> "none", format |-> "", data |-> << >>, over |-> "none"]

NoDialogOpen == [owner |-> "none", lastColor |-> Invalid, current |-> Invalid, live |-> 0]

-----------------------------------------------------------------------------
(* What a handler leaves for its caller to see: the event it was given, the *)
(* accepted flag the event carries when the handler returns and, for the    *)
(* dialog's signals, the colour the dialog shows and the number of live     *)
(* changes it has made; for a drop, where the drag came from.               *)

Event(type, target) ==
    [type |-> type, target |-> target, button |-> "", buttons |-> {},
     ctrl |-> FALSE, pos |-> <<0, 0>>, format |-> "", src |-> "none",
     shown |-> Invalid, live |-> 0, accepted |-> FALSE]

Empty == [b \in Buttons |-> << >>]

\* one colorChanged emission: the argument, and what a connected slot reads
\* from the button while it runs
Emission(b, c, colorNow, stringNow) ==
    [arg |-> c, color |-> colorNow[b], colorString |-> stringNow[b]]

-----------------------------------------------------------------------------
(* ColorButton.__parseColor and ColorButton.setColor *)

\* __parseColor with self.__color = c and self.colorFormat = fmt: the new
\* colorString and toolTip of button b (both kept when the string is the same)
parseColor(b, c, fmt) ==
    LET s == FormatColor(c, ColorFormatOf(fmt))
    IN  IF colorString[b] = s
        THEN /\ colorString' = colorString
             /\ toolTip' = toolTip
        ELSE /\ colorString' = [colorString EXCEPT ![b] = s]
             /\ toolTip' = [toolTip EXCEPT ![b] = s]

\* faulty variant: the notification goes out before the colour and the string are
\* stored: a connected slot still reads the old ones
setColorEmitsFirst(b, c) ==
    /\ color' = [color EXCEPT ![b] = c]
    /\ parseColor(b, c, colorFormat[b])
    /\ calls' = [Empty EXCEPT ![b] = << c >>]
    /\ emits' = [Empty EXCEPT ![b] = << Emission(b, c, color, colorString) >>]

\* setColor(c) on button b
setColor(b, c) ==
    /\ color' = [color EXCEPT ![b] = c]
    /\ parseColor(b, c, colorFormat[b])
    /\ calls' = [Empty EXCEPT ![b] = << c >>]
    /\ emits' = [Empty EXCEPT ![b] = << Emission(b, c, color', colorString') >>]

NoSetColor ==
    /\ UNCHANGED << color, colorString, toolTip >>
    /\ calls' = Empty
    /\ emits' = Empty

-----------------------------------------------------------------------------
(* Which nested event loop is running *)

DialogOpen == dialog.owner # "none"
DragActive == drag.src # "none"
MenuOpen == \E b \in Buttons : contextMenuVisible[b]

\* the application's own event loop delivers input only when none is running
Idle == ~DialogOpen /\ ~DragActive /\ ~MenuOpen

-----------------------------------------------------------------------------
(* widgets/color/colorBox.py: numbers, QColor and ColorBox.clamp *)

\* Python numbers: the int n, and the float n / d (d > 0)
PyInt(n) == [t |-> "int", n |-> n, d |-> 1]
PyFloat(n, d) == [t |-> "float", n |-> n, d |-> d]

\* x < y and x == y across int and float (1 == 1.0, False == 0, True == 1)
Less(x, y) == x.n * y.d < y.n * x.d
Equal(x, y) == x.n * y.d = y.n * x.d

\* min(a, b) and max(a, b): of two equal arguments Python returns the first
PyMin(a, b) == IF Less(b, a) THEN b ELSE a
PyMax(a, b) == IF Less(a, b) THEN b ELSE a

\* None, the value of _color and of _rgb until the first setColor: as a
\* QColor without channels, and as a tuple without members
None == [spec |-> "None"]
NoneTuple == << >>

\* the QColor of a ColorBox: its spec and its four 16-bit channels
QColor16(r, g, b, a) == [spec |-> "Rgb", r |-> r, g |-> g, b |-> b, a |-> a]

\* QColor(): invalid, channels 0, alpha opaque
InvalidQColor == [spec |-> "Invalid", r |-> 0, g |-> 0, b |-> 0, a |-> 65535]

\* QColor.fromRgb(r, g, b, a) and QColor(r, g, b, a) with 8-bit channels
fromRgb(t) == QColor16(t[1].n * 257, t[2].n * 257, t[3].n * 257, t[4].n * 257)

\* qRound(x * 65535) of a float x = n / d in [0, 1]
Round16(x) == (2 * x.n * 65535 + x.d) \div (2 * x.d)

\* QColor.fromRgbF(r, g, b, a) with channels in [0, 1]
fromRgbF(t) == QColor16(Round16(t[1]), Round16(t[2]), Round16(t[3]), Round16(t[4]))

\* a 16-bit channel as 8 bits
div257(x) == (x - (x \div 256) + 128) \div 256

\* QColor.getRgb(): four ints
getRgb(q) == << PyInt(div257(q.r)), PyInt(div257(q.g)), PyInt(div257(q.b)), PyInt(div257(q.a)) >>

\* QColor.getRgbF(): four floats
getRgbF(q) == << PyFloat(q.r, 65535), PyFloat(q.g, 65535), PyFloat(q.b, 65535), PyFloat(q.a, 65535) >>

\* faulty variant: the int channels are clamped into [0, 1]
clampIntoUnit(t) == [i \in 1..4 |-> PyMax(PyInt(0), PyMin(PyInt(1), t[i]))]

\* the generic clamp: max(0, min(255, x)) on each channel
clampInt(t) == [i \in 1..4 |-> PyMax(PyInt(0), PyMin(PyInt(255), t[i]))]

\* clamp registered for float: max(0, min((1, x))) on each channel
clampFloat(t) == [i \in 1..4 |-> PyMax(PyInt(0), PyMin(PyInt(1), t[i]))]

\* clamp(r, g, b, a): singledispatchmethod picks the body by the type of r
clamp(t) == IF t[1].t = "float" THEN clampFloat(t) ELSE clampInt(t)

\* '{:.3f}' of a float n / d in [0, 1]
Digit(k) == ToString(k % 10)
Fixed3(x) ==
    LET m == (2 * x.n * 1000 + x.d) \div (2 * x.d)
    IN  ToString(m \div 1000) \o "." \o Digit(m \div 100) \o Digit(m \div 10) \o Digit(m)

\* str() of an int, '{:.3f}'-free
Str(x) == ToString(x.n)

LowerHexDigits == << "0", "1", "2", "3", "4", "5", "6", "7",
                     "8", "9", "a", "b", "c", "d", "e", "f" >>

LowerHex2(n) == LowerHexDigits[(n \div 16) + 1] \o LowerHexDigits[(n % 16) + 1]

\* QColor.name(): '#rrggbb' of the 8-bit channels
name(q) == "#" \o LowerHex2(div257(q.r)) \o LowerHex2(div257(q.g)) \o LowerHex2(div257(q.b))

\* the condition of ColorBox.update as Python evaluates it:
\*   any(isinstance(chan, float) in self._rgb for chan in self._rgb)
\* is any((isinstance(chan, float)) in self._rgb ...): whether the bool
\* isinstance(chan, float) is equal to a member of the tuple
Bool(v) == IF v THEN PyInt(1) ELSE PyInt(0)
anyFloatIn(rgb) ==
    \E i \in 1..4 : \E j \in 1..4 : Equal(Bool(rgb[i].t = "float"), rgb[j])

\* the second line of the tooltip, of four floats and of four ints
floatLine(f) ==
    "R: " \o Fixed3(f[1]) \o "  G: " \o Fixed3(f[2])
          \o "  B: " \o Fixed3(f[3]) \o "  A: " \o Fixed3(f[4])
intLine(c) ==
    "R: " \o Str(c[1]) \o "  G: " \o Str(c[2])
          \o "  B: " \o Str(c[3]) \o "  A: " \o Str(c[4])

\* ColorBox.update with _color = q and _rgb = rgb: the r, g, b, a fields and
\* the tooltip
update(q, rgb) ==
    IF anyFloatIn(rgb)
    THEN LET f == getRgbF(q)
         IN  [color |-> q, rgb |-> rgb, r |-> f[1], g |-> f[2], b |-> f[3], a |-> f[4],
              toolTip |-> "Hex: " \o name(q) \o "\n" \o floatLine(f)]
    ELSE LET c == getRgb(q)
         IN  [color |-> q, rgb |-> rgb, r |-> c[1], g |-> c[2], b |-> c[3], a |-> c[4],
              toolTip |-> "Hex: " \o name(q) \o "\n" \o intLine(c)]

\* ColorBox.__init__
NewColorBox == [color |-> None, rgb |-> NoneTuple,
                r |-> PyInt(0), g |-> PyInt(0), b |-> PyInt(0), a |-> PyInt(0), toolTip |-> ""]

\* a setColor call: the overload taken, its arguments, the exception raised
\* and whether the ColorBox is as it was before the call
BoxEvent(kind, args, raised, same) ==
    [kind |-> kind, args |-> args, raised |-> raised, same |-> same]

NoBoxEvent == BoxEvent("none", << >>, "none", TRUE)

-----------------------------------------------------------------------------
(* widgets/color/colorBox.py: strings, as sequences of characters *)

UpperLetters == << "A", "B", "C", "D", "E", "F", "G", "H", "I", "J", "K", "L", "M",
                   "N", "O", "P", "Q", "R", "S", "T", "U", "V", "W", "X", "Y", "Z" >>
LowerLetters == << "a", "b", "c", "d", "e", "f", "g", "h", "i", "j", "k", "l", "m",
                   "n", "o", "p", "q", "r", "s", "t", "u", "v", "w", "x", "y", "z" >>

\* str.lower()
lowerChar(c) ==
    IF \E i \in 1..26 : UpperLetters[i] = c
    THEN LowerLetters[CHOOSE i \in 1..26 : UpperLetters[i] = c]
    ELSE c
lower(s) == [i \in 1..Len(s) |-> lowerChar(s[i])]

\* str.strip(): without the whitespace at both ends
strip(s) ==
    LET solid == {i \in 1..Len(s) : s[i] # " "}
        first == CHOOSE i \in solid : \A j \in solid : i <= j
        last  == CHOOSE i \in solid : \A j \in solid : i >= j
    IN  IF solid = {} THEN << >> ELSE SubSeq(s, first, last)

\* VALID_COLORS
VALID_COLORS == { LowerHexDigits[i] : i \in 1..16 }

\* int(c, 16) of one hex digit
int16(c) == (CHOOSE i \in 1..16 : LowerHexDigits[i] = c) - 1

\* QColor.colorNames(), as far as the calls use it, with the 8-bit channels
colorNames ==
    { << "r", "e", "d" >>, << "s", "t", "e", "e", "l", "b", "l", "u", "e" >> }
namedColor(s) ==
    IF s = << "r", "e", "d" >> THEN << PyInt(255), PyInt(0), PyInt(0), PyInt(255) >>
    ELSE << PyInt(70), PyInt(130), PyInt(180), PyInt(255) >>

\* QColor('#rgb') and QColor('#rrggbb'): one digit counts twice, alpha opaque
QColorOfHex(s) ==
    IF Len(s) = 4
    THEN fromRgb(<< PyInt(17 * int16(s[2])), PyInt(17 * int16(s[3])),
                    PyInt(17 * int16(s[4])), PyInt(255) >>)
    ELSE fromRgb(<< PyInt(16 * int16(s[2]) + int16(s[3])),
                    PyInt(16 * int16(s[4]) + int16(s[5])),
                    PyInt(16 * int16(s[6]) + int16(s[7])), PyInt(255) >>)

\* faulty variant: the alpha digits are read first, as QColor('#AARRGGBB') does
hexChannelsAlphaFirst(s) ==
    IF Len(s) = 5
    THEN << PyInt(17 * int16(s[3])), PyInt(17 * int16(s[4])),
            PyInt(17 * int16(s[5])), PyInt(17 * int16(s[2])) >>
    ELSE << PyInt(16 * int16(s[4]) + int16(s[5])), PyInt(16 * int16(s[6]) + int16(s[7])),
            PyInt(16 * int16(s[8]) + int16(s[9])), PyInt(16 * int16(s[2]) + int16(s[3])) >>

\* the tuple built from '#rgba' (each digit doubled) and from '#rrggbbaa'
hexChannels(s) ==
    IF Len(s) = 5
    THEN << PyInt(17 * int16(s[2])), PyInt(17 * int16(s[3])),
            PyInt(17 * int16(s[4])), PyInt(17 * int16(s[5])) >>
    ELSE << PyInt(16 * int16(s[2]) + int16(s[3])), PyInt(16 * int16(s[4]) + int16(s[5])),
            PyInt(16 * int16(s[6]) + int16(s[7])), PyInt(16 * int16(s[8]) + int16(s[9])) >>

-----------------------------------------------------------------------------
(* widgets/sliderWidget.py: SliderWidget, its QSlider and its QSpinBox *)

\* the values the calls and the user's edits are made with
ValueSeq == << 0, 100, 50, 150, -5, 99 >>
Values == { ValueSeq[i] : i \in 1..NumValues }

\* the minimum and maximum the widget is built with
Minimums == {0, 50}
Maximums == {100, 150}

\* a QSlider or QSpinBox as Qt builds it: range 0..99, value 0
QtRange == [min |-> 0, max |-> 99, value |-> 0]

\* v bound into the range of w
bound(w, v) == IF v < w.min THEN w.min ELSE IF v > w.max THEN w.max ELSE v

\* QSlider.setValue / QSpinBox.setValue: the value is bound into the range
wSetValue(w, v) == [w EXCEPT !.value = bound(w, v)]

\* setMinimum(m) is setRange(m, max(maximum, m)); the value is bound again
wSetMinimum(w, m) ==
    LET r == [min |-> m, max |-> IF w.max < m THEN m ELSE w.max, value |-> w.value]
    IN  [r EXCEPT !.value = bound(r, w.value)]

\* setMaximum(m) is setRange(min(minimum, m), m); the value is bound again
wSetMaximum(w, m) ==
    LET r == [min |-> IF w.min > m THEN m ELSE w.min, max |-> m, value |-> w.value]
    IN  [r EXCEPT !.value = bound(r, w.value)]

\* self._value = None, which is equal to no int
NoValue == -1000000

\* one setValue call: its argument, _value when it was entered, and whether
\* it was entered from inside another setValue
Call(arg, before, nested) == [arg |-> arg, before |-> before, nested |-> nested]

\* faulty variant: the QSlider is not blocked, so setting it from inside
\* setValue emits its valueChanged, which enters setValue again
setValueUnblocked(s, value) ==
    IF value = s.value
    THEN [s EXCEPT !.calls = Append(@, Call(value, s.value, FALSE))]
    ELSE LET t == [s EXCEPT !.value = value,
                            !.sl = wSetValue(@, value),
                            !.sp = wSetValue(@, value),
                            !.calls = Append(@, Call(value, s.value, FALSE)),
                            !.emitted = Append(@, value)]
         IN  IF t.sl.value = s.sl.value \/ ~s.wired THEN t
             ELSE IF t.sl.value = value
                  THEN [t EXCEPT !.calls = Append(@, Call(t.sl.value, value, TRUE))]
                  ELSE [t EXCEPT !.value = t.sl.value,
                                 !.calls = Append(@, Call(t.sl.value, value, TRUE)),
                                 !.emitted = Append(@, t.sl.value)]

\* setValue(value) in the state s of the widget: the calls and the
\* valueChanged emissions are logged in s; the QSlider and the QSpinBox are
\* set with their signals blocked, so nothing is entered from here
setValue(s, value) ==
    IF value = s.value
    THEN [s EXCEPT !.calls = Append(@, Call(value, s.value, FALSE))]
    ELSE [s EXCEPT !.value = value,
                   !.calls = Append(@, Call(value, s.value, FALSE)),
                   !.emitted = Append(@, value),
                   !.sl = wSetValue(@, value),
                   !.sp = wSetValue(@, value)]

\* a change of the value of the QSlider or the QSpinBox, from old to new,
\* outside setValue: once the signals are connected, valueChanged(new) calls
\* setValue(new)
valueChanged(s, old, new) ==
    IF s.wired /\ new # old THEN setValue(s, new) ELSE s

\* setMinimum(minimum)
setMinimum(s, minimum) ==
    LET s1 == [s EXCEPT !.sl = wSetMinimum(@, minimum)]
        s2 == valueChanged(s1, s.sl.value, s1.sl.value)
        s3 == [s2 EXCEPT !.sp = wSetMinimum(@, minimum)]
        s4 == valueChanged(s3, s2.sp.value, s3.sp.value)
    IN  IF s4.value < minimum THEN setValue(s4, minimum) ELSE s4

\* setMaximum(maximum)
setMaximum(s, maximum) ==
    LET s1 == [s EXCEPT !.sl = wSetMaximum(@, maximum)]
        s2 == valueChanged(s1, s.sl.value, s1.sl.value)
        s3 == [s2 EXCEPT !.sp = wSetMaximum(@, maximum)]
        s4 == valueChanged(s3, s2.sp.value, s3.sp.value)
    IN  IF s4.value > maximum THEN setValue(s4, maximum) ELSE s4

\* the state a handler starts from: nothing called or emitted yet
fresh(s) == [s EXCEPT !.calls = << >>, !.emitted = << >>]

\* SliderWidget.__init__(value, minimum, maximum): the signals are connected
\* after the three calls
SliderWidget(value, minimum, maximum) ==
    LET s0 == [value |-> NoValue, defaultValue |-> value,
               sl |-> QtRange, sp |-> QtRange, wired |-> FALSE,
               calls |-> << >>, emitted |-> << >>]
        s3 == setMaximum(setMinimum(setValue(s0, value), minimum), maximum)
    IN  [fresh(s3) EXCEPT !.wired = TRUE]

\* what a call or edit did: the calls of setValue it led to and the
\* valueChanged emissions, taken out of the state t it ended in
SliderEvent(type, arg, t) ==
    [type |-> type, arg |-> arg, calls |-> t.calls, emitted |-> t.emitted]

-----------------------------------------------------------------------------
(* widgets/sliderLabel.py: SliderLabel *)

Names == {"gain", "bias"}

\* SliderLabel.setText(name) on the label l
labelSetText(l, n) ==
    [l EXCEPT !.text = n, !.name = IF l.name = "" THEN n ELSE @]

\* SliderLabel(): no text, no name, the timer not running
SliderLabel == [text |-> "", name |-> "", hovering |-> FALSE, timer |-> FALSE,
                assigned |-> "", connected |-> FALSE]

\* the label of a SliderWidget built with the name n: setText(n), setName(n),
\* and resetRequested connected to _reset
NamedSliderLabel(n) ==
    [labelSetText(labelSetText(SliderLabel, n), n) EXCEPT
        !.assigned = n, !.connected = TRUE]

\* a call or event of the label: the text before it, and the number of
\* resetRequested emissions
LabelEvent(type, arg, textBefore, emitted) ==
    [type |-> type, arg |-> arg, textBefore |-> textBefore, emitted |-> emitted]

-----------------------------------------------------------------------------
(* Construction *)

\* SliderWidget(value=value, minimum=minimum, maximum=maximum, name=n): without
\* a name the widget has no label, and the label of the model is a
\* SliderLabel() of its own
InitSliderWidget(value, minimum, maximum, n) ==
    /\ slider = SliderWidget(value, minimum, maximum)
    /\ sliderEvent = SliderEvent("init", value, slider)
    /\ label = IF n = "" THEN SliderLabel ELSE NamedSliderLabel(n)
    /\ labelEvent = LabelEvent("init", n, "", 0)

\* two ColorButtons, each built with any colour
InitButtons ==
    /\ color \in [Buttons -> Colors]
    /\ colorString = [b \in Buttons |-> FormatColor(color[b], ClassColorFormat)]
    /\ toolTip = colorString
    /\ colorFormat = [b \in Buttons |-> NoAttr]
    /\ checked = [b \in Buttons |-> ClassColorFormat]
    /\ clipboard = ""
    /\ hover = [b \in Buttons |-> FALSE]
    /\ contextMenuVisible = [b \in Buttons |-> FALSE]
    /\ clickToOpen = [b \in Buttons |-> FALSE]
    /\ dragStartPosition = [b \in Buttons |-> <<0, 0>>]
    /\ dialog = NoDialogOpen
    /\ drag = NoDrag
    /\ lastEvent = Event("init", "none")
    /\ lastCrossing = [b \in Buttons |-> "none"]
    /\ pen = [b \in Buttons |-> "outline"]
    /\ calls = [b \in Buttons |-> << color[b] >>]
    /\ emits = [b \in Buttons |-> << Emission(b, color[b], color, colorString) >>]

\* ColorBox()
InitColorBox ==
    /\ box = NewColorBox
    /\ boxEvent = NoBoxEvent

\* two ColorButtons of any colour, a ColorBox() and a SliderWidget()
Init ==
    /\ InitButtons
    /\ InitColorBox
    /\ InitSliderWidget(0, 0, 100, "")

-----------------------------------------------------------------------------
(* Programmatic calls *)

\* button.setColor(c), called by the embedding application (at any time: a
\* timer or a slot may call it while a nested event loop runs)
SetColor(b, c) ==
    /\ setColor(b, c)
    /\ lastEvent' = Event("setColor", b)
    /\ UNCHANGED << colorFormat, checked, clipboard, hover, contextMenuVisible,
                    clickToOpen, dragStartPosition, dialog, drag, lastCrossing, pen >>
    /\ UNCHANGED widgetVars

\* button.setClickToOpen(v)
setClickToOpen(b, v) ==
    /\ clickToOpen' = [clickToOpen EXCEPT ![b] = v]
    /\ lastEvent' = Event("setClickToOpen", b)
    /\ NoSetColor
    /\ UNCHANGED << colorFormat, checked, clipboard, hover, contextMenuVisible,
                    dragStartPosition, dialog, drag, lastCrossing, pen >>
    /\ UNCHANGED widgetVars

-----------------------------------------------------------------------------
(* Hover and painting *)

enterEvent(b) ==
    /\ ~DragActive
    /\ hover' = [hover EXCEPT ![b] = TRUE]
    /\ lastEvent' = [Event("enter", b) EXCEPT !.accepted = TRUE]
    /\ lastCrossing' = [lastCrossing EXCEPT ![b] = "enter"]
    /\ NoSetColor
    /\ UNCHANGED << colorFormat, checked, clipboard, contextMenuVisible,
                    clickToOpen, dragStartPosition, dialog, drag, pen >>
    /\ UNCHANGED widgetVars

leaveEvent(b) ==
    /\ ~DragActive
    /\ hover' = [hover EXCEPT ![b] = FALSE]
    /\ lastEvent' = [Event("leave", b) EXCEPT !.accepted = TRUE]
    /\ lastCrossing' = [lastCrossing EXCEPT ![b] = "leave"]
    /\ NoSetColor
    /\ UNCHANGED << colorFormat, checked, clipboard, contextMenuVisible,
                    clickToOpen, dragStartPosition, dialog, drag, pen >>
    /\ UNCHANGED widgetVars

\* the pen paintEvent draws the outline with
outlinePen(b) ==
    IF hover[b] \/ contextMenuVisible[b] THEN "hoverOutlineColor" ELSE "outlineColor"

paintEvent(b) ==
    /\ pen' = [pen EXCEPT ![b] = outlinePen(b)]
    /\ lastEvent' = Event("paint", b)
    /\ NoSetColor
    /\ UNCHANGED << colorFormat, checked, clipboard, hover, contextMenuVisible,
                    clickToOpen, dragStartPosition, dialog, drag, lastCrossing >>
    /\ UNCHANGED widgetVars

-----------------------------------------------------------------------------
(* Context menu, output format and copy *)

\* onContextMenu up to contextMenu.exec(), which blocks while the menu is shown
onContextMenu(b) ==
    /\ Idle
    /\ contextMenuVisible' = [contextMenuVisible EXCEPT ![b] = TRUE]
    /\ lastEvent' = Event("contextMenu", b)
    /\ NoSetColor
    /\ UNCHANGED << colorFormat, checked, clipboard, hover, clickToOpen,
                    dragStartPosition, dialog, drag, lastCrossing, pen >>
    /\ UNCHANGED widgetVars

\* copyColorString
copyColorString(b) == clipboard' = colorString[b]

\* faulty variant: the format is stored but the string is not rendered again
onColorFormatChangedNoParse(b, text) ==
    /\ colorFormat' = [colorFormat EXCEPT ![b] = Lower(text)]
    /\ UNCHANGED << color, colorString, toolTip >>
    /\ calls' = Empty
    /\ emits' = Empty

\* faulty variant: the format is stored in the class attribute, which every button
\* reads
onColorFormatChangedOfClass(b, text) ==
    /\ colorFormat' = [o \in Buttons |-> Lower(text)]
    /\ parseColor(b, color[b], Lower(text))
    /\ UNCHANGED color
    /\ calls' = Empty
    /\ emits' = Empty

\* onColorFormatChanged(action) with action.text() = text
onColorFormatChanged(b, text) ==
    /\ colorFormat' = [colorFormat EXCEPT ![b] = Lower(text)]
    /\ parseColor(b, color[b], Lower(text))
    /\ UNCHANGED color
    /\ calls' = Empty
    /\ emits' = Empty

\* the menu closes on 'Copy': the action's slot runs, exec() returns and
\* onContextMenu clears the flag
MenuCopy(b) ==
    /\ contextMenuVisible[b]
    /\ copyColorString(b)
    /\ contextMenuVisible' = [contextMenuVisible EXCEPT ![b] = FALSE]
    /\ lastEvent' = Event("menuCopy", b)
    /\ NoSetColor
    /\ UNCHANGED << colorFormat, checked, hover, clickToOpen, dragStartPosition,
                    dialog, drag, lastCrossing, pen >>
    /\ UNCHANGED widgetVars

\* the menu closes on an entry of 'Value Type': the exclusive group checks it
MenuFormat(b, i) ==
    /\ contextMenuVisible[b]
    /\ checked' = [checked EXCEPT ![b] = FormatActions[i]]
    /\ onColorFormatChanged(b, FormatActions[i])
    /\ contextMenuVisible' = [contextMenuVisible EXCEPT ![b] = FALSE]
    /\ lastEvent' = [Event("menuFormat", b) EXCEPT !.format = FormatActions[i]]
    /\ UNCHANGED << clipboard, hover, clickToOpen, dragStartPosition,
                    dialog, drag, lastCrossing, pen >>
    /\ UNCHANGED widgetVars

\* the menu is dismissed without a choice
MenuDismiss(b) ==
    /\ contextMenuVisible[b]
    /\ contextMenuVisible' = [contextMenuVisible EXCEPT ![b] = FALSE]
    /\ lastEvent' = Event("menuDismiss", b)
    /\ NoSetColor
    /\ UNCHANGED << colorFormat, checked, clipboard, hover, clickToOpen,
                    dragStartPosition, dialog, drag, lastCrossing, pen >>
    /\ UNCHANGED widgetVars

\* keyPressEvent: Ctrl+C copies, any other key goes to QPushButton
keyPressEvent(b, ctrlC) ==
    /\ Idle
    /\ IF ctrlC THEN copyColorString(b) ELSE UNCHANGED clipboard
    /\ lastEvent' = [Event("keyPress", b) EXCEPT !.ctrl = ctrlC, !.accepted = ctrlC]
    /\ NoSetColor
    /\ UNCHANGED << colorFormat, checked, hover, contextMenuVisible, clickToOpen,
                    dragStartPosition, dialog, drag, lastCrossing, pen >>
    /\ UNCHANGED widgetVars

-----------------------------------------------------------------------------
(* The colour dialog: ColorButton.__openDialog *)

\* QColorDialog(self.__color): the dialog shows the seed colour; seeded with an
\* invalid colour it shows some valid colour of its own
DialogSeeds(c) == IF isValid(c) THEN {c} ELSE ValidColors

\* __openDialog up to colorDialog.exec(), which blocks while the dialog is open
openDialog(b) ==
    \E seed \in DialogSeeds(color[b]) :
        dialog' = [owner |-> b, lastColor |-> color[b], current |-> seed, live |-> 0]

\* currentColorChanged(c) while the dialog is open: the connected setColor runs
DialogCurrentColorChanged(c) ==
    /\ DialogOpen
    /\ c # dialog.current
    /\ dialog.live < MaxLive
    /\ dialog' = [dialog EXCEPT !.current = c, !.live = @ + 1]
    /\ setColor(dialog.owner, c)
    /\ lastEvent' = [Event("currentColorChanged", dialog.owner) EXCEPT
                        !.shown = c, !.live = dialog.live + 1]
    /\ UNCHANGED << colorFormat, checked, clipboard, hover, contextMenuVisible,
                    clickToOpen, dragStartPosition, drag, lastCrossing, pen >>
    /\ UNCHANGED widgetVars

\* faulty variant: accepting falls through to the rollback
dialogAcceptedRollsBack(b) == setColor(b, dialog.lastColor)

\* exec() returned Accepted: selectedColor() is the colour the dialog showed
\* last; the handler emits currentColorChanged with it and returns
dialogAccepted(b) == setColor(b, dialog.current)

\* faulty variant: cancelling returns without the rollback
dialogRejectedNoRollback(b) == NoSetColor

\* exec() returned Rejected: the handler restores the snapshot
dialogRejected(b) == setColor(b, dialog.lastColor)

DialogAccept ==
    /\ DialogOpen
    /\ dialogAccepted(dialog.owner)
    /\ dialog' = NoDialogOpen
    /\ lastEvent' = [Event("dialogAccepted", dialog.owner) EXCEPT
                        !.shown = dialog.current, !.live = dialog.live,
                        !.accepted = TRUE]
    /\ UNCHANGED << colorFormat, checked, clipboard, hover, contextMenuVisible,
                    clickToOpen, dragStartPosition, drag, lastCrossing, pen >>
    /\ UNCHANGED widgetVars

DialogReject ==
    /\ DialogOpen
    /\ dialogRejected(dialog.owner)
    /\ dialog' = NoDialogOpen
    /\ lastEvent' = [Event("dialogRejected", dialog.owner) EXCEPT
                        !.shown = dialog.current, !.live = dialog.live]
    /\ UNCHANGED << colorFormat, checked, clipboard, hover, contextMenuVisible,
                    clickToOpen, dragStartPosition, drag, lastCrossing, pen >>
    /\ UNCHANGED widgetVars

-----------------------------------------------------------------------------
(* Mouse buttons *)

\* mousePressEvent: the left button records the position
mousePressEvent(b, button, pos) ==
    /\ Idle
    /\ IF button = LeftButton
       THEN dragStartPosition' = [dragStartPosition EXCEPT ![b] = pos]
       ELSE UNCHANGED dragStartPosition
    /\ lastEvent' = [Event("mousePress", b) EXCEPT !.button = button, !.pos = pos]
    /\ NoSetColor
    /\ UNCHANGED << colorFormat, checked, clipboard, hover, contextMenuVisible,
                    clickToOpen, dialog, drag, lastCrossing, pen >>
    /\ UNCHANGED widgetVars

\* the condition under which mouseReleaseEvent calls __openDialog: the
\* released button is not looked at
opensDialog(b, button, ctrl) == clickToOpen[b] \/ ctrl

\* mouseReleaseEvent with event.button() = button, ctrl: ControlModifier held
mouseReleaseEvent(b, button, ctrl) ==
    /\ Idle
    /\ IF opensDialog(b, button, ctrl) THEN openDialog(b) ELSE UNCHANGED dialog
    /\ lastEvent' = [Event("mouseRelease", b) EXCEPT !.button = button, !.ctrl = ctrl]
    /\ NoSetColor
    /\ UNCHANGED << colorFormat, checked, clipboard, hover, contextMenuVisible,
                    clickToOpen, dragStartPosition, drag, lastCrossing, pen >>
    /\ UNCHANGED widgetVars

-----------------------------------------------------------------------------
(* Drag and drop *)

\* __dragIt up to drag.exec(), which blocks until the drag ends: nothing is
\* dragged out of a button without a valid colour
dragIt(b) ==
    IF ~isValid(color[b])
    THEN UNCHANGED drag
    ELSE drag' = [src |-> b, format |-> MIME_TYPE_COLOR,
                  data |-> EncodeColor(color[b]), over |-> "none"]

\* faulty variant: the drag starts only past the threshold
startsDragPastThreshold(b, buttons, pos) ==
    /\ XorLeft(buttons) = {}
    /\ manhattanLength(pos, dragStartPosition[b]) > StartDragDistance

\* the condition under which mouseMoveEvent calls __dragIt
startsDrag(b, buttons, pos) ==
    /\ XorLeft(buttons) = {}
    /\ manhattanLength(pos, dragStartPosition[b]) >= StartDragDistance

\* mouseMoveEvent with event.buttons() = buttons at pos
mouseMoveEvent(b, buttons, pos) ==
    /\ Idle
    /\ IF startsDrag(b, buttons, pos) THEN dragIt(b) ELSE UNCHANGED drag
    /\ lastEvent' = [Event("mouseMove", b) EXCEPT
                        !.buttons = buttons, !.pos = pos,
                        !.accepted = (XorLeft(buttons) = {})]
    /\ NoSetColor
    /\ UNCHANGED << colorFormat, checked, clipboard, hover, contextMenuVisible,
                    clickToOpen, dragStartPosition, dialog, lastCrossing, pen >>
    /\ UNCHANGED widgetVars

\* a drag that starts outside the two buttons (another widget or application),
\* with a payload of either format
ForeignDrag(format, c) ==
    /\ Idle
    /\ drag' = [src |-> "foreign", format |-> format,
                data |-> IF format = MIME_TYPE_COLOR THEN EncodeColor(c) ELSE << >>,
                over |-> "none"]
    /\ lastEvent' = [Event("foreignDrag", "none") EXCEPT !.format = format]
    /\ NoSetColor
    /\ UNCHANGED << colorFormat, checked, clipboard, hover, contextMenuVisible,
                    clickToOpen, dragStartPosition, dialog, lastCrossing, pen >>
    /\ UNCHANGED widgetVars

\* event.mimeData().hasFormat(MIME_TYPE_COLOR)
hasFormat(d) == d.format = MIME_TYPE_COLOR

\* faulty variant: the button lights up under a payload it does not accept
dragEnterEventAnyFormat(b) ==
    /\ DragActive
    /\ drag.over = "none"
    /\ drag' = [drag EXCEPT !.over = b]
    /\ hover' = [hover EXCEPT ![b] = TRUE]
    /\ lastEvent' = [Event("dragEnter", b) EXCEPT
                        !.format = drag.format, !.accepted = hasFormat(drag)]
    /\ IF hasFormat(drag)
       THEN lastCrossing' = [lastCrossing EXCEPT ![b] = "dragEnter"]
       ELSE UNCHANGED lastCrossing
    /\ NoSetColor
    /\ UNCHANGED << colorFormat, checked, clipboard, contextMenuVisible,
                    clickToOpen, dragStartPosition, dialog, pen >>
    /\ UNCHANGED widgetVars

\* dragEnterEvent: the drag moves onto button b
dragEnterEvent(b) ==
    /\ DragActive
    /\ drag.over = "none"
    /\ drag' = [drag EXCEPT !.over = b]
    /\ IF hasFormat(drag)
       THEN hover' = [hover EXCEPT ![b] = TRUE]
       ELSE UNCHANGED hover
    /\ lastEvent' = [Event("dragEnter", b) EXCEPT
                        !.format = drag.format, !.accepted = hasFormat(drag)]
    /\ IF hasFormat(drag)
       THEN lastCrossing' = [lastCrossing EXCEPT ![b] = "dragEnter"]
       ELSE UNCHANGED lastCrossing
    /\ NoSetColor
    /\ UNCHANGED << colorFormat, checked, clipboard, contextMenuVisible,
                    clickToOpen, dragStartPosition, dialog, pen >>
    /\ UNCHANGED widgetVars

\* dragLeaveEvent: the drag moves off button b
dragLeaveEvent(b) ==
    /\ DragActive
    /\ drag.over = b
    /\ drag' = [drag EXCEPT !.over = "none"]
    /\ hover' = [hover EXCEPT ![b] = FALSE]
    /\ lastEvent' = [Event("dragLeave", b) EXCEPT
                        !.format = drag.format, !.accepted = hasFormat(drag)]
    /\ IF hasFormat(drag)
       THEN lastCrossing' = [lastCrossing EXCEPT ![b] = "dragLeave"]
       ELSE UNCHANGED lastCrossing
    /\ NoSetColor
    /\ UNCHANGED << colorFormat, checked, clipboard, contextMenuVisible,
                    clickToOpen, dragStartPosition, dialog, pen >>
    /\ UNCHANGED widgetVars

\* faulty variant: the payload is decoded whatever its format: a stream without a
\* colour in it leaves the QColor invalid
droppedIgnoresFormat(b, d) ==
    IF ~hasFormat(d)
    THEN setColor(b, Invalid)
    ELSE setColor(b, DecodeColor(d.data))

\* faulty variant: the drop takes the colour the source button holds now, not the
\* one in the payload
droppedReadsSource(b, d) ==
    IF ~hasFormat(d)
    THEN NoSetColor
    ELSE setColor(b, IF d.src \in Buttons THEN color[d.src] ELSE DecodeColor(d.data))

\* what dropEvent does with the payload of drag d
dropped(b, d) ==
    IF ~hasFormat(d)
    THEN NoSetColor
    ELSE setColor(b, DecodeColor(d.data))

\* dropEvent: the payload is released over button b, which ends the drag
dropEvent(b) ==
    /\ DragActive
    /\ drag.over = b
    /\ dropped(b, drag)
    /\ drag' = NoDrag
    /\ lastEvent' = [Event("drop", b) EXCEPT
                        !.format = drag.format, !.src = drag.src,
                        !.accepted = hasFormat(drag)]
    /\ IF hasFormat(drag)
       THEN lastCrossing' = [lastCrossing EXCEPT ![b] = "drop"]
       ELSE UNCHANGED lastCrossing
    /\ UNCHANGED << colorFormat, checked, clipboard, hover, contextMenuVisible,
                    clickToOpen, dragStartPosition, dialog, pen >>
    /\ UNCHANGED widgetVars

\* the payload is released outside the two buttons, or the drag is cancelled
DragEnd ==
    /\ DragActive
    /\ drag.over = "none"
    /\ drag' = NoDrag
    /\ lastEvent' = Event("dragEnd", "none")
    /\ NoSetColor
    /\ UNCHANGED << colorFormat, checked, clipboard, hover, contextMenuVisible,
                    clickToOpen, dragStartPosition, dialog, lastCrossing, pen >>
    /\ UNCHANGED widgetVars

-----------------------------------------------------------------------------
(* Specifications *)

\* the embedding application's calls
Calls ==
    \/ \E b \in Buttons, c \in Colors : SetColor(b, c)
    \/ \E b \in Buttons, v \in BOOLEAN : setClickToOpen(b, v)

\* the pointer crossing a button, and repaints
Crossings ==
    \/ \E b \in Buttons : enterEvent(b)
    \/ \E b \in Buttons : leaveEvent(b)
    \/ \E b \in Buttons : paintEvent(b)

\* the context menu
Menus ==
    \/ \E b \in Buttons : onContextMenu(b)
    \/ \E b \in Buttons : MenuCopy(b)
    \/ \E b \in Buttons, i \in 1..3 : MenuFormat(b, i)
    \/ \E b \in Buttons : MenuDismiss(b)

\* a release that may open the dialog, and the dialog's three signals
Dialogs ==
    \/ \E b \in Buttons, m \in MouseButtons, k \in BOOLEAN : mouseReleaseEvent(b, m, k)
    \/ \E c \in ValidColors : DialogCurrentColorChanged(c)
    \/ DialogAccept
    \/ DialogReject

\* the sources of a drag
DragSources ==
    \/ \E b \in Buttons, m \in MouseButtons, p \in Points : mousePressEvent(b, m, p)
    \/ \E b \in Buttons, m \in ButtonSets, p \in Points : mouseMoveEvent(b, m, p)
    \/ \E f \in MimeFormats, c \in Colors : ForeignDrag(f, c)

\* a drag in flight
DragTargets ==
    \/ \E b \in Buttons : dragEnterEvent(b)
    \/ \E b \in Buttons : dragLeaveEvent(b)
    \/ \E b \in Buttons : dropEvent(b)
    \/ DragEnd

Next ==
    \/ Calls
    \/ Crossings
    \/ Menus
    \/ \E b \in Buttons, k \in BOOLEAN : keyPressEvent(b, k)
    \/ Dialogs
    \/ DragSources
    \/ DragTargets

\* every handler of the two buttons
Spec == Init /\ [][Next]_vars

\* the colour dialog: releases, live changes, accept, cancel, setColor calls
NextDialog == Calls \/ Dialogs

SpecDialog == Init /\ [][NextDialog]_vars

\* drag and drop: presses, moves, foreign drags, drops, setColor calls
NextDrag ==
    \/ \E b \in Buttons, c \in Colors : SetColor(b, c)
    \/ DragSources
    \/ DragTargets

SpecDrag == Init /\ [][NextDrag]_vars

\* hover and outline: crossings, drags over the buttons, the context menu
NextHover ==
    \/ Crossings
    \/ \E f \in MimeFormats, c \in Colors : ForeignDrag(f, c)
    \/ DragTargets
    \/ \E b \in Buttons : onContextMenu(b)
    \/ \E b \in Buttons : MenuDismiss(b)

SpecHover == Init /\ [][NextHover]_vars

\* everything that calls setColor, and the choice of the output format
NextColor ==
    \/ \E b \in Buttons, c \in Colors : SetColor(b, c)
    \/ \E b \in Buttons : onContextMenu(b)
    \/ \E b \in Buttons, i \in 1..3 : MenuFormat(b, i)
    \/ \E b \in Buttons : MenuDismiss(b)
    \/ \E b \in Buttons : mouseReleaseEvent(b, LeftButton, TRUE)
    \/ \E c \in ValidColors : DialogCurrentColorChanged(c)
    \/ DialogAccept
    \/ DialogReject
    \/ \E c \in Colors : ForeignDrag(MIME_TYPE_COLOR, c)
    \/ \E b \in Buttons : dragEnterEvent(b)
    \/ \E b \in Buttons : dropEvent(b)

SpecColor == Init /\ [][NextColor]_vars

\* the tooltip and the two ways to copy, with everything that changes the
\* colour or the format of a button: the menu and setColor calls (made from
\* the application's own event loop) on both buttons, the dialog on button
\* A, drops on button B
NextCopy ==
    \/ \E b \in Buttons, c \in Colors : Idle /\ SetColor(b, c)
    \/ Menus
    \/ \E b \in Buttons, k \in BOOLEAN : keyPressEvent(b, k)
    \/ mouseReleaseEvent("A", LeftButton, TRUE)
    \/ \E c \in ValidColors : DialogCurrentColorChanged(c)
    \/ DialogAccept
    \/ DialogReject
    \/ \E c \in Colors : ForeignDrag(MIME_TYPE_COLOR, c)
    \/ dragEnterEvent("B")
    \/ dropEvent("B")

SpecCopy == Init /\ [][NextCopy]_vars

-----------------------------------------------------------------------------
(* The colour dialog *)

\* C1: cancelling the dialog leaves the button with the colour it held when
\* the dialog was opened, whatever live changes the dialog made in between:
\* the snapshot taken on opening is the stored colour, it is kept while the
\* dialog is open, and cancelling stores it again.
C1_CancelRestoresColor ==
    [][ /\ (~DialogOpen /\ DialogOpen')
            => dialog'.lastColor = color[dialog'.owner]
        /\ (DialogOpen /\ DialogOpen')
            => /\ dialog'.lastColor = dialog.lastColor
               /\ dialog'.owner = dialog.owner
        /\ (DialogOpen /\ lastEvent'.type = "dialogRejected")
            => /\ lastEvent'.target = dialog.owner
               /\ color'[dialog.owner] = dialog.lastColor
      ]_vars

\* the dialog was cancelled after three live changes, the last of them to a
\* colour other than the one the button held, and the button holds a valid
\* colour again that the dialog did not show last
C1_Witness ==
    /\ lastEvent.type = "dialogRejected"
    /\ lastEvent.live = 3
    /\ isValid(color[lastEvent.target])
    /\ lastEvent.shown # color[lastEvent.target]

\* C2: a live change stores the colour the dialog shows, and accepting the
\* dialog leaves the button with the colour the dialog selected.
C2_AcceptStoresSelection ==
    /\ lastEvent.type = "currentColorChanged"
        => color[lastEvent.target] = lastEvent.shown
    /\ lastEvent.type = "dialogAccepted"
        => color[lastEvent.target] = lastEvent.shown

\* the dialog was accepted after three live changes
C2_Witness ==
    /\ lastEvent.type = "dialogAccepted"
    /\ lastEvent.live = 3
    /\ color[lastEvent.target] = lastEvent.shown

-----------------------------------------------------------------------------
(* The colorChanged notification *)

\* the handlers that call setColor on the button they are delivered to
SetColorEvents ==
    {"setColor", "currentColorChanged", "dialogAccepted", "dialogRejected"}

\* the number of setColor calls the last handler made on button b (the
\* constructor calls it once on each button)
SetColorCalls(b) ==
    IF lastEvent.type = "init" THEN 1
    ELSE IF lastEvent.target # b THEN 0
    ELSE IF lastEvent.type \in SetColorEvents THEN 1
    ELSE IF lastEvent.type = "drop" /\ lastEvent.accepted THEN 1
    ELSE 0

\* C3: every setColor(c), whoever calls it, emits colorChanged exactly once,
\* with c, and a slot that runs on the emission already reads c as the stored
\* colour and c rendered in the button's format as the colour string.
C3_SetColorEmitsOnce ==
    \A b \in Buttons :
        /\ Len(calls[b]) = SetColorCalls(b)
        /\ Len(emits[b]) = Len(calls[b])
        /\ \A i \in 1..Len(calls[b]) :
            /\ emits[b][i].arg = calls[b][i]
            /\ emits[b][i].color = calls[b][i]
            /\ emits[b][i].colorString =
                   FormatColor(calls[b][i], ColorFormatOf(colorFormat[b]))

\* the rollback of a cancelled dialog has emitted the restored colour, which
\* differs from the one the dialog showed, on a button whose format is HSL
C3_Witness ==
    /\ lastEvent.type = "dialogRejected"
    /\ colorFormat[lastEvent.target] = "hsl"
    /\ Len(emits[lastEvent.target]) = 1
    /\ emits[lastEvent.target][1].arg = color[lastEvent.target]
    /\ emits[lastEvent.target][1].arg # lastEvent.shown

-----------------------------------------------------------------------------
(* Drag and drop *)

\* C4: a drop whose payload is not of the colour MIME type is not accepted,
\* changes neither the colour, the colour string, the tooltip nor the hover
\* flag, and emits nothing; nor does the drag-enter of such a payload accept
\* the drag or touch the hover flag.
C4_ForeignPayloadRejected ==
    [][ /\ (DragActive /\ ~hasFormat(drag) /\ lastEvent'.type = "drop")
            => /\ ~lastEvent'.accepted
               /\ color' = color
               /\ colorString' = colorString
               /\ toolTip' = toolTip
               /\ hover' = hover
               /\ emits' = Empty
        /\ (DragActive /\ ~hasFormat(drag) /\ lastEvent'.type = "dragEnter")
            => /\ ~lastEvent'.accepted
               /\ hover' = hover
      ]_vars

\* a text payload was dropped on a button that is hovered and holds a valid
\* colour, and was not accepted
C4_Witness ==
    /\ lastEvent.type = "drop"
    /\ lastEvent.format = "text/plain"
    /\ ~lastEvent.accepted
    /\ hover[lastEvent.target]
    /\ isValid(color[lastEvent.target])

\* C5: the payload of a drag out of a button is the colour the button holds
\* when the drag starts, and stays that while the drag lasts; a drop stores
\* the colour of the payload in the target through one setColor call and
\* leaves the other button's colour alone; and no step that changes the
\* colour of one button changes the colour of the other.
C5_DropCopiesValue ==
    [][ /\ (~DragActive /\ DragActive' /\ drag'.src \in Buttons)
            => /\ hasFormat(drag')
               /\ DecodeColor(drag'.data) = color[drag'.src]
               /\ color' = color
        /\ (DragActive /\ DragActive')
            => /\ drag'.data = drag.data
               /\ drag'.src = drag.src
        /\ (DragActive /\ hasFormat(drag) /\ lastEvent'.type = "drop")
            => /\ color'[lastEvent'.target] = DecodeColor(drag.data)
               /\ calls'[lastEvent'.target] = << DecodeColor(drag.data) >>
               /\ \A o \in Buttons \ {lastEvent'.target} : color'[o] = color[o]
        /\ \A b \in Buttons :
               color'[b] # color[b] => color'[Other(b)] = color[Other(b)]
      ]_vars

\* a drag out of A was dropped on B, and A, whose colour was set again while
\* the drag lasted, holds another colour than B
C5_Witness ==
    /\ lastEvent.type = "drop"
    /\ lastEvent.src = "A"
    /\ lastEvent.target = "B"
    /\ lastEvent.accepted
    /\ isValid(color["B"])
    /\ color["A"] # color["B"]

\* the last mouseMoveEvent started a drag out of its button
DragStarted == DragActive /\ drag.src = lastEvent.target

\* the pointer is at least the drag distance away from the recorded press
MovedFar ==
    manhattanLength(lastEvent.pos, dragStartPosition[lastEvent.target])
        >= StartDragDistance

\* C9 as stated: a move with the primary button held, at least the drag
\* distance away from the press, starts a drag that carries the stored
\* colour; any other move starts none.
C9_Original ==
    lastEvent.type = "mouseMove"
        => /\ (LeftButton \in lastEvent.buttons /\ MovedFar)
                => /\ DragStarted
                   /\ hasFormat(drag)
                   /\ DecodeColor(drag.data) = color[lastEvent.target]
           /\ ~(LeftButton \in lastEvent.buttons /\ MovedFar) => ~DragActive

\* C9 (amended): a move with the primary button and no other button held, at
\* least the drag distance away from the press, over a button whose stored
\* colour is valid, starts a drag that carries the stored colour under the
\* colour MIME type; any other move starts none.
C9_DragOfValidColorWithOnlyLeftHeld ==
    lastEvent.type = "mouseMove"
        => LET sole == lastEvent.buttons = {LeftButton}
               valid == isValid(color[lastEvent.target])
           IN  /\ (sole /\ MovedFar /\ valid)
                    => /\ DragStarted
                       /\ hasFormat(drag)
                       /\ DecodeColor(drag.data) = color[lastEvent.target]
               /\ ~(sole /\ MovedFar /\ valid) => ~DragActive

\* a drag has started exactly at the drag distance (5 + 5) from a press at
\* the origin
C9_Witness ==
    /\ lastEvent.type = "mouseMove"
    /\ DragStarted
    /\ dragStartPosition[lastEvent.target] = <<0, 0>>
    /\ lastEvent.pos = <<5, 5>>

-----------------------------------------------------------------------------
(* Output format, tooltip and copy *)

\* the stored colour of b rendered in the format checked in its menu
Rendered(b) == FormatColor(color[b], checked[b])

C7_FormatAndColorIndependent ==
    [][ /\ lastEvent'.type = "menuFormat"
            => /\ color' = color
               /\ calls' = Empty
               /\ emits' = Empty
               /\ checked'[lastEvent'.target] = lastEvent'.format
               /\ colorFormat'[lastEvent'.target] = Lower(lastEvent'.format)
               /\ \A o \in Buttons \ {lastEvent'.target} :
                      /\ colorFormat'[o] = colorFormat[o]
                      /\ checked'[o] = checked[o]
                      /\ colorString'[o] = colorString[o]
                      /\ toolTip'[o] = toolTip[o]
        /\ lastEvent'.type # "menuFormat"
            => /\ colorFormat' = colorFormat
               /\ checked' = checked
      ]_vars

\* a format was chosen on one button while the other is set to another one
\* and holds a colour of its own
C7_Witness ==
    /\ lastEvent.type = "menuFormat"
    /\ colorFormat["A"] = "hex"
    /\ colorFormat["B"] = "hsl"
    /\ isValid(color["A"])
    /\ isValid(color["B"])
    /\ color["A"] # color["B"]

-----------------------------------------------------------------------------
(* Opening the dialog *)

\* C8 as stated: after a release the dialog is open if and only if the
\* released button is the primary one and clickToOpen is set or Ctrl is held;
\* no release calls setColor.
C8_ReleaseOpensOnlyOnPrimary ==
    lastEvent.type = "mouseRelease"
        => /\ DialogOpen <=> /\ lastEvent.button = LeftButton
                             /\ clickToOpen[lastEvent.target] \/ lastEvent.ctrl
           /\ calls = Empty

\* the release of the right button has opened the dialog of a button that
\* opens on a click
C8_Witness ==
    /\ lastEvent.type = "mouseRelease"
    /\ lastEvent.button = "Right"
    /\ ~lastEvent.ctrl
    /\ clickToOpen[lastEvent.target]
    /\ DialogOpen
    /\ dialog.owner = lastEvent.target

-----------------------------------------------------------------------------
(* Hover and outline *)

\* C10 as stated: the hover flag of a button is set exactly when the last
\* pointer crossing or event of an accepted drag on it was an entry.
C10_Original ==
    \A b \in Buttons : hover[b] <=> lastCrossing[b] \in {"enter", "dragEnter"}

MenuCloses == {"menuCopy", "menuFormat", "menuDismiss"}

\* C10 (amended): a pointer enter and an accepted drag enter set the hover
\* flag of their button, a pointer leave and every drag leave (of an accepted
\* drag or not) clear it, and no other step (a drop, a drag enter that is not
\* accepted, the context menu, a repaint) changes it; a repaint takes the
\* hover colour exactly when the hover flag or the context-menu flag is set;
\* the context-menu flag is set when the menu opens, cleared when it closes
\* and changed by nothing else.
C10_HoverFollowsCrossings ==
    [][ \A b \in Buttons :
          LET e == lastEvent'
              here == e.target = b
          IN  /\ hover'[b] =
                    CASE here /\ e.type = "enter" -> TRUE
                      [] here /\ e.type = "dragEnter" /\ e.accepted -> TRUE
                      [] here /\ e.type \in {"leave", "dragLeave"} -> FALSE
                      [] OTHER -> hover[b]
              /\ contextMenuVisible'[b] =
                    CASE here /\ e.type = "contextMenu" -> TRUE
                      [] here /\ e.type \in MenuCloses -> FALSE
                      [] OTHER -> contextMenuVisible[b]
              /\ (here /\ e.type = "paint")
                    => (pen'[b] = "hoverOutlineColor"
                            <=> (hover'[b] \/ contextMenuVisible'[b]))
              /\ ~(here /\ e.type = "paint") => pen'[b] = pen[b]
      ]_vars

\* an accepted payload was dropped on a button: the drop is the last event of
\* the drag and the button is still lit
C10_Witness ==
    /\ lastEvent.type = "drop"
    /\ lastEvent.accepted
    /\ lastCrossing[lastEvent.target] = "drop"
    /\ hover[lastEvent.target]

-----------------------------------------------------------------------------
(* ColorBox.setColor *)

\* the channels the calls are made with
IntChannels == {-7, 200, 300}
IntTuples == [1..4 -> {PyInt(n) : n \in IntChannels}]

\* floats, and the two calls of the module that mix floats and ints
FloatChannels == {PyFloat(-1, 2), PyFloat(1, 2), PyFloat(4, 1)}
FloatTuples ==
    [1..4 -> FloatChannels]
        \cup { << PyFloat(4, 1), PyInt(255), PyInt(255), PyInt(255) >>,
               << PyFloat(1, 2), PyInt(1), PyFloat(1, 2), PyFloat(1, 2) >> }

QColors == {InvalidQColor, QColor16(255 * 257, 0, 0, 128 * 257),
            QColor16(70 * 257, 130 * 257, 180 * 257, 255 * 257)}

\* setColor(r, g, b, a) with a float r: the generic body
setColorReal(t) ==
    LET q == fromRgbF(clamp(t))
    IN  /\ box' = update(q, getRgbF(q))
        /\ boxEvent' = BoxEvent("float", t, "none", box' = box)
        /\ UNCHANGED << buttonVars, sliderVars >>

\* setColor(r, g, b, a) with an int r
setColorInt(t) ==
    LET q == fromRgb(clamp(t))
    IN  /\ box' = update(q, getRgb(q))
        /\ boxEvent' = BoxEvent("int", t, "none", box' = box)
        /\ UNCHANGED << buttonVars, sliderVars >>

\* setColor(color) with a QColor
setColorQColor(q) ==
    /\ box' = update(q, getRgb(q))
    /\ boxEvent' = BoxEvent("QColor", q, "none", box' = box)
    /\ UNCHANGED << buttonVars, sliderVars >>

\* the hex digits the strings are written with
InputDigits == << "f", "0", "A", "8", "c" >>
Digits == { InputDigits[i] : i \in 1..NumDigits }

\* the four hex forms of a digit triple, opaque
HexForm(n, x, y, z) ==
    CASE n = 1 -> << "#", x, y, z >>
      [] n = 2 -> << "#", x, y, z, "f" >>
      [] n = 3 -> << "#", x, x, y, y, z, z >>
      [] n = 4 -> << "#", x, x, y, y, z, z, "f", "f" >>

HexStrings == { HexForm(n, x, y, z) : n \in 1..4, x \in Digits, y \in Digits, z \in Digits }

\* "#FF0000", "#f00", "#FF0000FF", "#f00f", " #F00 ", "#f008", "#ff000080",
\* "red", "Red ", "steelblue"
OtherStrings ==
    { << "#", "F", "F", "0", "0", "0", "0" >>, << "#", "f", "0", "0" >>,
      << "#", "F", "F", "0", "0", "0", "0", "F", "F" >>, << "#", "f", "0", "0", "f" >>,
      << " ", "#", "F", "0", "0", " " >>, << "#", "f", "0", "0", "8" >>,
      << "#", "f", "f", "0", "0", "0", "0", "8", "0" >>,
      << "r", "e", "d" >>, << "R", "e", "d", " " >>,
      << "s", "t", "e", "e", "l", "b", "l", "u", "e" >> }

\* "", " ", "#", "#12", "#12345", "#ff00000", "ff0000", "#ggg", "not-a-color"
BadStrings ==
    { << >>, << " " >>, << "#" >>, << "#", "1", "2" >>,
      << "#", "1", "2", "3", "4", "5" >>,
      << "#", "f", "f", "0", "0", "0", "0", "0" >>,
      << "f", "f", "0", "0", "0", "0" >>, << "#", "g", "g", "g" >>,
      << "n", "o", "t", "-", "a", "-", "c", "o", "l", "o", "r" >> }

Strings == HexStrings \cup OtherStrings \cup BadStrings

\* the exception setColor(color) raises for the str color, or "none":
\* color[0] of an empty string is an IndexError
raises(str) ==
    LET text == strip(lower(str))
        numChars == Len(text)
    IN  IF text \in colorNames THEN "none"
        ELSE IF numChars = 0 THEN "IndexError"
        ELSE IF \/ text[1] # "#"
                \/ \E i \in 2..numChars : text[i] \notin VALID_COLORS
                \/ numChars \notin {4, 5, 7, 9}
             THEN "ValueError"
        ELSE "none"

\* the QColor setColor(color) stores for a str color that raises nothing
QColorOfStr(str) ==
    LET text == strip(lower(str))
    IN  IF text \in colorNames THEN fromRgb(namedColor(text))
        ELSE IF Len(text) \in {7, 4} THEN QColorOfHex(text)
        ELSE fromRgb(hexChannels(text))

\* setColor(color) with a str
setColorStr(str) ==
    /\ IF raises(str) # "none"
       THEN box' = box
       ELSE box' = update(QColorOfStr(str), getRgb(QColorOfStr(str)))
    /\ boxEvent' = BoxEvent("str", str, raises(str), box' = box)
    /\ UNCHANGED << buttonVars, sliderVars >>

NextBox ==
    \/ \E t \in FloatTuples : setColorReal(t)
    \/ \E t \in IntTuples : setColorInt(t)
    \/ \E q \in QColors : setColorQColor(q)
    \/ \E str \in Strings : setColorStr(str)

\* the ColorBox alone, next to two ColorButtons nobody touches
InitBox == Init /\ color = [b \in Buttons |-> Invalid]

SpecBox == InitBox /\ [][NextBox]_vars

-----------------------------------------------------------------------------
(* ColorBox: channels *)

\* n clamped into [0, 255]
Clamp255(n) == IF n < 0 THEN 0 ELSE IF n > 255 THEN 255 ELSE n

\* x clamped into [0, 1]
Clamp01(x) == IF x.n < 0 THEN PyInt(0) ELSE IF x.n > x.d THEN PyInt(1) ELSE x

\* C11: after setColor(r, g, b, a) with four ints the call has not raised,
\* the rgba property is (clamp(r), clamp(g), clamp(b), clamp(a)) with clamp
\* into [0, 255], and the colour property is the QColor of those channels;
\* after a call whose red channel is a float the channels are clamped into
\* [0, 1] instead (an int 1 among them is full intensity, not 1 of 255).
C11_IntTupleRoundTrips ==
    /\ boxEvent.kind = "int"
        => LET want == [i \in 1..4 |-> PyInt(Clamp255(boxEvent.args[i].n))]
           IN  /\ boxEvent.raised = "none"
               /\ box.rgb = want
               /\ getRgb(box.color) = want
               /\ box.color.spec = "Rgb"
    /\ boxEvent.kind = "float"
        => /\ boxEvent.raised = "none"
           /\ box.color = fromRgbF([i \in 1..4 |-> Clamp01(boxEvent.args[i])])

\* setColor(300, -7, 200, 300) has stored (255, 0, 200, 255)
C11_Witness ==
    /\ boxEvent.kind = "int"
    /\ boxEvent.args = << PyInt(300), PyInt(-7), PyInt(200), PyInt(300) >>
    /\ box.rgb = << PyInt(255), PyInt(0), PyInt(200), PyInt(255) >>

\* the r, g, b, a fields and the tooltip line hold the ints of getRgb()
ReportsInts ==
    /\ << box.r, box.g, box.b, box.a >> = getRgb(box.color)
    /\ box.toolTip = "Hex: " \o name(box.color) \o "\n" \o intLine(getRgb(box.color))

\* the r, g, b, a fields and the tooltip line hold the floats of getRgbF()
ReportsFloats ==
    /\ << box.r, box.g, box.b, box.a >> = getRgbF(box.color)
    /\ box.toolTip = "Hex: " \o name(box.color) \o "\n" \o floatLine(getRgbF(box.color))

\* C12 as stated: after an int-tuple, QColor or string assignment the fields
\* and the tooltip line are the 0-255 ints, after a float-tuple assignment
\* the normalized floats.
C12_ReportsInRepresentationOfEntryPoint ==
    /\ (boxEvent.kind \in {"int", "QColor", "str"} /\ boxEvent.raised = "none")
        => ReportsInts
    /\ boxEvent.kind = "float" => ReportsFloats

\* setColor(200, -7, 200, 300), four ints, has left floats in the fields
C12_Witness ==
    /\ boxEvent.kind = "int"
    /\ boxEvent.args = << PyInt(200), PyInt(-7), PyInt(200), PyInt(300) >>
    /\ box.rgb = << PyInt(200), PyInt(0), PyInt(200), PyInt(255) >>
    /\ box.r = PyFloat(200 * 257, 65535)
    /\ box.toolTip = "Hex: #c800c8\nR: 0.784  G: 0.000  B: 0.784  A: 1.000"

-----------------------------------------------------------------------------
(* ColorBox: colour strings *)

\* the value of a hex digit, in either case
DigitValue(c) ==
    CASE c \in {"0"} -> 0
      [] c \in {"8"} -> 8
      [] c \in {"a", "A"} -> 10
      [] c \in {"c", "C"} -> 12
      [] c \in {"f", "F"} -> 15

\* the opaque colour of three 8-bit channels
Opaque(r, g, b) == fromRgb(<< PyInt(r), PyInt(g), PyInt(b), PyInt(255) >>)

\* "#FF0000", "#f00", "#FF0000FF", "#f00f"
RedStrings ==
    { << "#", "F", "F", "0", "0", "0", "0" >>, << "#", "f", "0", "0" >>,
      << "#", "F", "F", "0", "0", "0", "0", "F", "F" >>, << "#", "f", "0", "0", "f" >> }

\* C13: for every digit triple x, y, z the strings #xyz, #xyzf, #xxyyzz and
\* #xxyyzzff store the same opaque colour, whose red, green and blue are x, y
\* and z doubled, whatever the case of the digits; "#FF0000", "#f00",
\* "#FF0000FF" and "#f00f" store opaque red.
C13_HexFormsAgree ==
    boxEvent.kind = "str"
        => /\ \A n \in 1..4, x \in Digits, y \in Digits, z \in Digits :
                boxEvent.args = HexForm(n, x, y, z)
                    => /\ boxEvent.raised = "none"
                       /\ box.color = Opaque(17 * DigitValue(x), 17 * DigitValue(y),
                                             17 * DigitValue(z))
                       /\ box.rgb = getRgb(box.color)
           /\ boxEvent.args \in RedStrings
                => /\ boxEvent.raised = "none"
                   /\ box.color = Opaque(255, 0, 0)
                   /\ box.rgb = << PyInt(255), PyInt(0), PyInt(0), PyInt(255) >>

\* setColor("#f00f") has stored opaque red
C13_Witness ==
    /\ boxEvent.kind = "str"
    /\ boxEvent.args = << "#", "f", "0", "0", "f" >>
    /\ box.rgb = << PyInt(255), PyInt(0), PyInt(0), PyInt(255) >>
    /\ name(box.color) = "#ff0000"

\* a colour name, or '#' and 3, 4, 6 or 8 hex digits, in either case and with
\* or without blanks around it
Recognized(str) ==
    LET text == strip(lower(str))
    IN  \/ text \in colorNames
        \/ /\ Len(text) \in {4, 5, 7, 9}
           /\ text[1] = "#"
           /\ \A i \in 2..Len(text) : text[i] \in VALID_COLORS

\* C14 as stated: setColor with a string that is neither a colour name nor a
\* hex form raises ValueError and leaves the ColorBox as it was.
C14_MalformedStringRaisesValueError ==
    (boxEvent.kind = "str" /\ ~Recognized(boxEvent.args))
        => /\ boxEvent.raised = "ValueError"
           /\ boxEvent.same

\* setColor("") on a ColorBox that holds a colour has raised IndexError
C14_Witness ==
    /\ boxEvent.kind = "str"
    /\ boxEvent.args = << >>
    /\ boxEvent.raised = "IndexError"
    /\ boxEvent.same
    /\ box.color # None

-----------------------------------------------------------------------------
(* ColorButton: the formatted strings *)

\* the format __parseColor matches on for button b
FormatOf(b) == Lower(ColorFormatOf(colorFormat[b]))

\* "rgb(R, G, B)" of the 8-bit channels
ExactRgb(c) ==
    "rgb(" \o ToString(c.r) \o ", " \o ToString(c.g) \o ", " \o ToString(c.b) \o ")"

\* "hsl(H, S%, L%)": hue x 360 and saturation, lightness x 100, each rounded
\* half-up (the hue of an achromatic colour is -1)
ExactHsl(c) ==
    LET hsl == HslOf(c)
        h == IF hsl.achromatic THEN "-360" ELSE ToString(HalfUp(hsl.h, 100))
    IN  "hsl(" \o h \o ", " \o ToString(HalfUp(hsl.s * 100, 65535)) \o "%, "
               \o ToString(HalfUp(hsl.l * 100, 65535)) \o "%)"

\* C15 as stated: the string of a valid colour is exactly "rgb(R, G, B)" in
\* RGB format and "hsl(H, S%, L%)" in HSL format; for (4, 66, 227) the two
\* are "rgb(4, 66, 227)" and "hsl(223, 97%, 45%)".
C15_FormatsExactly ==
    \A b \in Buttons :
        isValid(color[b])
            => /\ FormatOf(b) = "rgb" => colorString[b] = ExactRgb(color[b])
               /\ FormatOf(b) = "hsl" => colorString[b] = ExactHsl(color[b])
               /\ (FormatOf(b) = "rgb" /\ color[b] = Rgb(4, 66, 227))
                    => colorString[b] = "rgb(4, 66, 227)"
               /\ (FormatOf(b) = "hsl" /\ color[b] = Rgb(4, 66, 227))
                    => colorString[b] = "hsl(223, 97%, 45%)"

\* a button set to HSL holds (4, 66, 227) and its string ends in a blank
C15_Witness ==
    \E b \in Buttons :
        /\ color[b] = Rgb(4, 66, 227)
        /\ FormatOf(b) = "hsl"
        /\ lastEvent.type = "menuFormat"
        /\ colorString[b] = "hsl(223, 97%, 45%) "
        /\ colorString[b] = ExactHsl(color[b]) \o " "
        /\ toolTip[b] = colorString[b]

-----------------------------------------------------------------------------
(* SliderWidget and SliderLabel: calls, edits and events *)

\* a call or edit of the SliderWidget that ends in the state t
SliderStep(type, arg, t) ==
    /\ slider' = t
    /\ sliderEvent' = SliderEvent(type, arg, t)
    /\ UNCHANGED << buttonVars, boxVars, label, labelEvent >>

\* widget.setValue(v), called by the application
SetValue(v) == SliderStep("setValue", v, setValue(fresh(slider), v))

\* widget.setMinimum(m) and widget.setMaximum(m), called by the application
SetMinimum(m) == SliderStep("setMinimum", m, setMinimum(fresh(slider), m))
SetMaximum(m) == SliderStep("setMaximum", m, setMaximum(fresh(slider), m))

\* the user moves the QSlider to v: its valueChanged(v) calls setValue(v)
SliderMoved(v) ==
    /\ slider.sl.min <= v /\ v <= slider.sl.max
    /\ v # slider.sl.value
    /\ SliderStep("sliderMoved", v,
                  valueChanged([fresh(slider) EXCEPT !.sl.value = v], slider.sl.value, v))

\* the user edits the QSpinBox to v: its valueChanged(v) calls setValue(v)
SpinboxEdited(v) ==
    /\ slider.sp.min <= v /\ v <= slider.sp.max
    /\ v # slider.sp.value
    /\ SliderStep("spinboxEdited", v,
                  valueChanged([fresh(slider) EXCEPT !.sp.value = v], slider.sp.value, v))

\* _reset: setValue(self._defaultValue)
reset(s) == setValue(s, s.defaultValue)

\* a call or event of the SliderLabel that ends in the label l and leaves
\* the SliderWidget alone
LabelStep(type, arg, l) ==
    /\ label' = l
    /\ labelEvent' = LabelEvent(type, arg, label.text, 0)
    /\ UNCHANGED << buttonVars, boxVars, slider, sliderEvent >>

\* label.setText(n), called by the application
LabelSetText(n) ==
    LabelStep("setText", n, [labelSetText(label, n) EXCEPT !.assigned = n])

\* SliderWidget.setName(n): the label of the widget gets setText(n), unless
\* the name is empty
setName(n) ==
    /\ label.connected
    /\ LabelStep("setName", n,
                 IF n = "" THEN label
                 ELSE [labelSetText(label, n) EXCEPT !.assigned = n])

\* enterEvent: the single-shot timer is started
labelEnterEvent ==
    /\ ~label.hovering
    /\ LabelStep("enter", "", [label EXCEPT !.hovering = TRUE, !.timer = TRUE])

\* leaveEvent: switchText() is setText(self.name)
labelLeaveEvent ==
    /\ label.hovering
    /\ LabelStep("leave", "", labelSetText([label EXCEPT !.hovering = FALSE], label.name))

\* the timer fires: showResetText
showResetText ==
    /\ label.timer
    /\ LabelStep("timeout", "",
                 IF label.hovering
                 THEN labelSetText([label EXCEPT !.timer = FALSE], "reset?")
                 ELSE [label EXCEPT !.timer = FALSE])

\* mousePressEvent of the label: resetRequested is emitted when the text is
\* 'reset?', which runs _reset of the widget it is connected to
labelMousePressEvent ==
    /\ labelEvent' = LabelEvent("press", "", label.text,
                                IF label.text = "reset?" THEN 1 ELSE 0)
    /\ IF label.text = "reset?" /\ label.connected
       THEN /\ slider' = reset(fresh(slider))
            /\ sliderEvent' = SliderEvent("reset", slider.defaultValue, slider')
       ELSE UNCHANGED << slider, sliderEvent >>
    /\ UNCHANGED << buttonVars, boxVars, label >>

NextSlider ==
    \/ \E v \in Values : SetValue(v)
    \/ \E m \in Values : SetMinimum(m)
    \/ \E m \in Values : SetMaximum(m)
    \/ \E v \in Values : SliderMoved(v)
    \/ \E v \in Values : SpinboxEdited(v)
    \/ labelEnterEvent
    \/ showResetText
    \/ labelLeaveEvent
    \/ labelMousePressEvent

\* two untouched ColorButtons, a ColorBox(), and a SliderWidget built with
\* any value, minimum, maximum and a name
InitSlider ==
    /\ InitButtons
    /\ color = [b \in Buttons |-> Invalid]
    /\ InitColorBox
    /\ \E value \in Values, minimum \in Minimums, maximum \in Maximums, n \in Names :
           InitSliderWidget(value, minimum, maximum, n)

SpecSlider == InitSlider /\ [][NextSlider]_vars

\* the SliderLabel: renamed, hovered, pressed, next to a SliderWidget that is
\* set by the application and reset by the label
NextLabel ==
    \/ \E n \in Names \cup {""} : LabelSetText(n)
    \/ \E n \in Names \cup {""} : setName(n)
    \/ labelEnterEvent
    \/ showResetText
    \/ labelLeaveEvent
    \/ labelMousePressEvent
    \/ \E v \in Values : SetValue(v)

\* a SliderWidget() with or without a name
InitLabel ==
    /\ InitButtons
    /\ color = [b \in Buttons |-> Invalid]
    /\ InitColorBox
    /\ \E n \in Names \cup {""} : InitSliderWidget(0, 0, 100, n)

SpecLabel == InitLabel /\ [][NextLabel]_vars

-----------------------------------------------------------------------------
(* SliderWidget: the value *)

\* C16 as stated: the value of the widget is the value of its QSlider and of
\* its QSpinBox, and lies within their range.
C16_ValueIsSliderAndSpinboxValue ==
    /\ slider.value = slider.sl.value
    /\ slider.value = slider.sp.value
    /\ slider.sl.min <= slider.value
    /\ slider.value <= slider.sl.max

\* setValue(150) on a widget whose range ends at 100 has left 150 in the
\* widget and 100 in the QSlider and the QSpinBox
C16_Witness ==
    /\ sliderEvent.type = "setValue"
    /\ sliderEvent.arg = 150
    /\ slider.value = 150
    /\ slider.sl.max = 100
    /\ slider.sl.value = 100
    /\ slider.sp.value = 100

\* the calls and edits that call setValue once
SingleCalls == {"setValue", "sliderMoved", "spinboxEdited", "reset"}

\* C17: no setValue call is entered from inside setValue; the valueChanged
\* emissions of a step are as many as its setValue calls whose argument
\* differed from the value; setValue(v), a move of the slider to v, an edit
\* of the spinbox to v and a reset to v each call setValue once and emit v
\* once if v differed from the value, and nothing if not.
C17_SetValueEmitsOncePerChange ==
    LET e == sliderEvent
        changing == {i \in 1..Len(e.calls) : e.calls[i].arg # e.calls[i].before}
    IN  /\ \A i \in 1..Len(e.calls) : ~e.calls[i].nested
        /\ Len(e.emitted) = Cardinality(changing)
        /\ e.type \in SingleCalls
            => /\ Len(e.calls) = 1
               /\ e.calls[1].arg = e.arg
               /\ e.emitted = IF e.arg # e.calls[1].before THEN << e.arg >> ELSE << >>
               /\ slider.value = e.arg

\* setValue(50) on a widget of another value has emitted 50 once and moved
\* the QSlider and the QSpinBox there
C17_Witness ==
    /\ sliderEvent.type = "setValue"
    /\ sliderEvent.arg = 50
    /\ sliderEvent.calls[1].before # 50
    /\ sliderEvent.emitted = << 50 >>
    /\ slider.sl.value = 50
    /\ slider.sp.value = 50

-----------------------------------------------------------------------------
(* SliderLabel: the text *)

\* C18 as stated: the text is 'reset?' only while the pointer hovers;
\* resetRequested is emitted only by a press on the text 'reset?'; after a
\* leave the text is the name most recently assigned.
C18_ResetTextOnlyWhileHovering ==
    /\ label.text = "reset?" => label.hovering
    /\ labelEvent.emitted > 0
        => (labelEvent.type = "press" /\ labelEvent.textBefore = "reset?")
    /\ labelEvent.type = "leave" => label.text = label.assigned

\* the pointer has left a label that was named 'gain' and renamed 'bias':
\* the label reads 'gain' again
C18_Witness ==
    /\ labelEvent.type = "leave"
    /\ labelEvent.textBefore = "reset?"
    /\ label.assigned = "bias"
    /\ label.text = "gain"

====
